---- MODULE Spec2Model ----
(***************************************************************************)
(* Model of drivers/python2/rethinkdb/net.py: the blocking Connection      *)
(* (token allocation, one request/response round trip, status dispatch),   *)
(* the BatchedIterator that pages through a result stream, the             *)
(* exact-length socket read Connection._recvall, and the error locator     *)
(* (BacktracePrettyPrinter, QueryError.location).                          *)
(*                                                                         *)
(* The client is single threaded and blocking.  One round trip (send a     *)
(* frame, receive the reply, dispatch on its status code) is one step; the *)
(* reply is an input of the step.  An operation that loops over round      *)
(* trips (read_until and its callers) is a call frame that is stepped      *)
(* until it returns or raises; nothing else runs while a frame is active.  *)
(***************************************************************************)
EXTENDS Integers, Sequences, FiniteSets, TLC

VARIABLES
    token,      \* Connection.token: the next token to hand out
    sent,       \* every request frame written to the socket, in order
    reply,      \* the response the current (or last) operation decoded most recently
    streams,    \* the BatchedIterator objects created so far
    cursors,    \* per stream: the rows the server has delivered for its token
    call,       \* the active call frame of a looping operation
    ret,        \* how the most recent operation ended
    gen,        \* the generator object of BatchedIterator.__iter__
    recv_length,    \* _recvall: the requested byte count
    recv_buf,       \* _recvall: buf
    sock,           \* bytes the peer has written and the client not yet read
    recv_state,     \* _recvall: "loop", "returned", "raised" ("unused" outside RecvSpec)
    recv_eof,       \* the last socket.recv returned zero bytes (end of stream)
    pp_in,          \* error location: the arguments of the call under study
    pp_out          \* error location: what the call returned or raised

sessionVars == <<token, sent, reply, streams, cursors, call, ret, gen>>
recvVars == <<recv_length, recv_buf, sock, recv_state, recv_eof>>
printVars == <<pp_in, pp_out>>
vars == <<token, sent, reply, streams, cursors, call, ret, gen,
          recv_length, recv_buf, sock, recv_state, recv_eof, pp_in, pp_out>>

----------------------------------------------------------------------------
(* Bounds of the model *)

MaxSent == 4        \* round trips on the Session
MaxStreams == MaxSent \div 2    \* BatchedIterator objects: a START and a fetch each
MaxData == 3        \* rows the server delivers for one token
MaxPage == 2        \* rows in one response
MaxOther == 2       \* length of the list a stream is compared with
MaxIndex == 2       \* magnitude of an index passed to __getitem__ / read_until
MaxLen == 3         \* _recvall: requested length
MaxSock == 3        \* _recvall: bytes that arrive before end of stream

----------------------------------------------------------------------------
(* Values *)

RECURSIVE SeqsUpTo(_, _)
SeqsUpTo(S, n) ==
    IF n = 0 THEN {<<>>}
    ELSE LET shorter == SeqsUpTo(S, n - 1)
         IN  shorter \cup {Append(q, x) : q \in {r \in shorter : Len(r) = n - 1}, x \in S}

Last(q) == q[Len(q)]

\* p.Response status codes; "UNKNOWN" stands for any code outside the enum.
SUCCESS_JSON == "SUCCESS_JSON"
SUCCESS_STREAM == "SUCCESS_STREAM"
SUCCESS_PARTIAL == "SUCCESS_PARTIAL"
SUCCESS_EMPTY == "SUCCESS_EMPTY"
RUNTIME_ERROR == "RUNTIME_ERROR"
BAD_QUERY == "BAD_QUERY"
BROKEN_CLIENT == "BROKEN_CLIENT"
UNKNOWN == "UNKNOWN"

\* JSON texts carried in Response.response, and the values json.loads gives:
\* the text of row n of a result set is the decimal numeral of n.
JsonText == <<"1", "2", "3", "4", "5", "6">>
JsonLoads(s) == CHOOSE n \in DOMAIN JsonText : JsonText[n] = s

\* The expressions the caller submits: the n-th frame on the wire, when it is
\* a START, carries the expression QueryText[n] (all distinct).
QueryText == <<"q1", "q2", "q3", "q4", "q5", "q6">>
Messages == {"boom"}
Backtraces == {<<>>, <<1>>}

\* The responses the server may send for a token of which it has delivered
\* the first `from` rows: a page carries the next rows of the result set, in
\* order, and the result set has at most MaxData rows.
Responses(from) ==
    [status_code : {SUCCESS_STREAM, SUCCESS_PARTIAL},
     response : {[i \in 1..n |-> JsonText[from + i]] : n \in 0..(IF MaxData - from < MaxPage THEN MaxData - from ELSE MaxPage)},
     error_message : {""}, backtrace : {<<>>}]
    \cup
    [status_code : {SUCCESS_JSON},
     response : {<<JsonText[1]>>, <<JsonText[2]>>},
     error_message : {""}, backtrace : {<<>>}]
    \cup
    [status_code : {SUCCESS_EMPTY, BROKEN_CLIENT, UNKNOWN},
     response : {<<>>},
     error_message : {""}, backtrace : {<<>>}]
    \cup
    [status_code : {RUNTIME_ERROR, BAD_QUERY},
     response : {<<>>},
     error_message : Messages, backtrace : Backtraces]

\* The body of a request that has none (a Query with only token and type set).
NoBody == ""

NoReply == [status_code |-> "none", response |-> <<>>,
            error_message |-> "", backtrace |-> <<>>]

\* What _run hands back: a parsed JSON value, a list of them, or None.
JsonValue(n) == [tag |-> "json", n |-> n, elems |-> <<>>]
ListValue(es) == [tag |-> "list", n |-> 0, elems |-> es]
NoneValue == [tag |-> "None", n |-> 0, elems |-> <<>>]

\* Exceptions.
NoExc == [type |-> "none", message |-> "", ast_path |-> <<>>, query |-> ""]
QueryError(type, message, ast_path, query) ==
    [type |-> type, message |-> message, ast_path |-> ast_path, query |-> query]
PyError(type, message) ==
    [type |-> type, message |-> message, ast_path |-> <<>>, query |-> ""]

----------------------------------------------------------------------------
(* Connection *)

\* A _get_token that forgets to advance the counter.
GetTokenStuck(tok) == [token |-> tok, next |-> tok]

\* Connection._get_token: the token handed out and the counter afterwards.
GetToken(tok) == [token |-> tok, next |-> tok + 1]

\* A dispatch whose final else returns None instead of raising.
RunDispatchLenient(response, query) ==
    LET code == response.status_code IN
    IF code = SUCCESS_JSON THEN
        [exc |-> NoExc, ret |-> JsonValue(JsonLoads(response.response[1])), code |-> code]
    ELSE IF code \in {SUCCESS_STREAM, SUCCESS_PARTIAL} THEN
        [exc |-> NoExc,
         ret |-> ListValue([i \in 1..Len(response.response) |-> JsonLoads(response.response[i])]),
         code |-> code]
    ELSE IF code = RUNTIME_ERROR THEN
        [exc |-> QueryError("ExecutionError", response.error_message, response.backtrace, query),
         ret |-> NoneValue, code |-> code]
    ELSE IF code = BAD_QUERY THEN
        [exc |-> QueryError("BadQueryError", response.error_message, response.backtrace, query),
         ret |-> NoneValue, code |-> code]
    ELSE IF code = BROKEN_CLIENT THEN
        [exc |-> PyError("ValueError", "rejected protocol buffer as malformed"),
         ret |-> NoneValue, code |-> code]
    ELSE
        [exc |-> NoExc, ret |-> NoneValue, code |-> code]

\* The status dispatch of Connection._run on a decoded response.
RunDispatch(response, query) ==
    LET code == response.status_code IN
    IF code = SUCCESS_JSON THEN
        [exc |-> NoExc, ret |-> JsonValue(JsonLoads(response.response[1])), code |-> code]
    ELSE IF code \in {SUCCESS_STREAM, SUCCESS_PARTIAL} THEN
        [exc |-> NoExc,
         ret |-> ListValue([i \in 1..Len(response.response) |-> JsonLoads(response.response[i])]),
         code |-> code]
    ELSE IF code = SUCCESS_EMPTY THEN
        [exc |-> NoExc, ret |-> NoneValue, code |-> code]
    ELSE IF code = RUNTIME_ERROR THEN
        [exc |-> QueryError("ExecutionError", response.error_message, response.backtrace, query),
         ret |-> NoneValue, code |-> code]
    ELSE IF code = BAD_QUERY THEN
        [exc |-> QueryError("BadQueryError", response.error_message, response.backtrace, query),
         ret |-> NoneValue, code |-> code]
    ELSE IF code = BROKEN_CLIENT THEN
        [exc |-> PyError("ValueError", "rejected protocol buffer as malformed"),
         ret |-> NoneValue, code |-> code]
    ELSE
        [exc |-> PyError("ValueError", "unexpected status code"),
         ret |-> NoneValue, code |-> code]

\* A BatchedIterator whose more_query carries the token after its own.
NewStreamNextToken(query, tok, data, complete) ==
    [query |-> query, token |-> tok, data |-> data, complete |-> complete,
     more_query |-> [token |-> tok + 1, type |-> "CONTINUE", body |-> NoBody]]

\* BatchedIterator.__init__
NewStream(query, tok, data, complete) ==
    [query |-> query, token |-> tok, data |-> data, complete |-> complete,
     more_query |-> [token |-> tok, type |-> "CONTINUE", body |-> NoBody]]

\* A run that marks the stream complete on the wrong status.
RunReturnInverted(query, tok, r) ==
    IF r.code \in {SUCCESS_STREAM, SUCCESS_PARTIAL}
    THEN [stream |-> TRUE, it |-> NewStream(query, tok, r.ret.elems, r.code = SUCCESS_PARTIAL),
          value |-> NoneValue]
    ELSE [stream |-> FALSE, it |-> NewStream(query, tok, <<>>, TRUE), value |-> r.ret]

\* What Connection.run returns for the outcome of _run.
RunReturn(query, tok, r) ==
    IF r.code \in {SUCCESS_STREAM, SUCCESS_PARTIAL}
    THEN [stream |-> TRUE, it |-> NewStream(query, tok, r.ret.elems, r.code = SUCCESS_STREAM),
          value |-> NoneValue]
    ELSE [stream |-> FALSE, it |-> NewStream(query, tok, <<>>, TRUE), value |-> r.ret]

----------------------------------------------------------------------------
(* BatchedIterator *)

\* A read_more that keeps only the page it has just received.
ReadMoreReplace(st, response) ==
    IF st.complete THEN [st |-> st, exc |-> NoExc, frames |-> <<>>]
    ELSE
        LET r == RunDispatch(response, st.query) IN
        IF r.exc # NoExc THEN [st |-> st, exc |-> r.exc, frames |-> <<st.more_query>>]
        ELSE
            LET st1 == IF r.code = SUCCESS_STREAM THEN [st EXCEPT !.complete = TRUE] ELSE st IN
            IF r.ret.tag = "list"
            THEN [st |-> [st1 EXCEPT !.data = r.ret.elems], exc |-> NoExc,
                  frames |-> <<st.more_query>>]
            ELSE [st |-> st1, exc |-> PyError("TypeError", "object is not iterable"),
                  frames |-> <<st.more_query>>]

\* A read_more without the test of the completion flag.
ReadMoreUnchecked(st, response) ==
    LET r == RunDispatch(response, st.query) IN
    IF r.exc # NoExc THEN [st |-> st, exc |-> r.exc, frames |-> <<st.more_query>>]
    ELSE
        LET st1 == IF r.code = SUCCESS_STREAM THEN [st EXCEPT !.complete = TRUE] ELSE st IN
        IF r.ret.tag = "list"
        THEN [st |-> [st1 EXCEPT !.data = @ \o r.ret.elems], exc |-> NoExc,
              frames |-> <<st.more_query>>]
        ELSE [st |-> st1, exc |-> PyError("TypeError", "object is not iterable"),
              frames |-> <<st.more_query>>]

\* A read_more that takes every status but SUCCESS_PARTIAL as the last page.
ReadMoreEager(st, response) ==
    IF st.complete THEN [st |-> st, exc |-> NoExc, frames |-> <<>>]
    ELSE
        LET r == RunDispatch(response, st.query) IN
        IF r.exc # NoExc THEN [st |-> st, exc |-> r.exc, frames |-> <<st.more_query>>]
        ELSE
            LET st1 == IF r.code # SUCCESS_PARTIAL THEN [st EXCEPT !.complete = TRUE] ELSE st IN
            IF r.ret.tag = "list"
            THEN [st |-> [st1 EXCEPT !.data = @ \o r.ret.elems], exc |-> NoExc,
                  frames |-> <<st.more_query>>]
            ELSE [st |-> st1, exc |-> PyError("TypeError", "object is not iterable"),
                  frames |-> <<st.more_query>>]

\* A read_more that puts the new page in front of the rows it holds.
ReadMorePrepend(st, response) ==
    IF st.complete THEN [st |-> st, exc |-> NoExc, frames |-> <<>>]
    ELSE
        LET r == RunDispatch(response, st.query) IN
        IF r.exc # NoExc THEN [st |-> st, exc |-> r.exc, frames |-> <<st.more_query>>]
        ELSE
            LET st1 == IF r.code = SUCCESS_STREAM THEN [st EXCEPT !.complete = TRUE] ELSE st IN
            IF r.ret.tag = "list"
            THEN [st |-> [st1 EXCEPT !.data = r.ret.elems \o @], exc |-> NoExc,
                  frames |-> <<st.more_query>>]
            ELSE [st |-> st1, exc |-> PyError("TypeError", "object is not iterable"),
                  frames |-> <<st.more_query>>]

\* BatchedIterator.read_more on stream st when the round trip is answered by
\* response: the stream afterwards, the exception raised, the frames sent.
ReadMore(st, response) ==
    IF st.complete THEN [st |-> st, exc |-> NoExc, frames |-> <<>>]
    ELSE
        LET r == RunDispatch(response, st.query) IN
        IF r.exc # NoExc THEN [st |-> st, exc |-> r.exc, frames |-> <<st.more_query>>]
        ELSE
            LET st1 == IF r.code = SUCCESS_STREAM THEN [st EXCEPT !.complete = TRUE] ELSE st IN
            IF r.ret.tag = "list"
            THEN [st |-> [st1 EXCEPT !.data = @ \o r.ret.elems], exc |-> NoExc,
                  frames |-> <<st.more_query>>]
            ELSE [st |-> st1, exc |-> PyError("TypeError", "object is not iterable"),
                  frames |-> <<st.more_query>>]

\* A read_until that fetches one row beyond the index asked for.
ReadUntilMoreEager(st, isNone, index) ==
    IF isNone THEN ~st.complete
    ELSE index + 1 >= Len(st.data) /\ ~st.complete /\ index + 1 >= Len(st.data)

\* A read_until whose loop test is off by one (index > len(data)).
ReadUntilMoreStrict(st, isNone, index) ==
    IF isNone THEN ~st.complete
    ELSE index > Len(st.data) /\ ~st.complete /\ index > Len(st.data)

\* The loop test of BatchedIterator.read_until: TRUE when read_until(index)
\* calls read_more once more (isNone: index is None).
ReadUntilMore(st, isNone, index) ==
    IF isNone THEN ~st.complete
    ELSE index >= Len(st.data) /\ ~st.complete /\ index >= Len(st.data)

\* The loop test of BatchedIterator.__iter__.
IterMore(st, index) == ~st.complete /\ index < Len(st.data)

\* A list indexing that gives the last element for an index past the end.
ListIndexClamped(data, index) ==
    IF index >= 0
    THEN IF index < Len(data) THEN index + 1 ELSE Len(data)
    ELSE IF -index <= Len(data) THEN Len(data) + index + 1 ELSE 0

\* Python list indexing data[index]: the position (1-based) or 0 for IndexError.
ListIndex(data, index) ==
    IF index >= 0
    THEN IF index < Len(data) THEN index + 1 ELSE 0
    ELSE IF -index <= Len(data) THEN Len(data) + index + 1 ELSE 0

\* The value BatchedIterator.__eq__ returns once read_until has returned.
EqResult(st, other) == st.complete /\ st.data = other

----------------------------------------------------------------------------------------------------------------------------------------
(* State *)

Idle == [op |-> "idle", s |-> 0, isNone |-> FALSE, index |-> 0, key |-> 0, other |-> <<>>]
Frame(op, s, isNone, index, key, other) ==
    [op |-> op, s |-> s, isNone |-> isNone, index |-> index, key |-> key, other |-> other]

\* The outcome of an operation: mark is the number of frames sent before it
\* began, frame the call frame it began with, items the sequence a traversal
\* was given.
Ret(op, s, mark, kind, val, exc) ==
    [op |-> op, s |-> s, mark |-> mark, kind |-> kind, val |-> val, items |-> <<>>,
     exc |-> exc, frame |-> Idle]
Pending(frame, mark) ==
    [op |-> frame.op, s |-> frame.s, mark |-> mark, kind |-> "pending", val |-> 0,
     items |-> <<>>, exc |-> NoExc, frame |-> frame]
NoGen == [state |-> "none", index |-> 0, yielded |-> <<>>]

SessionInit ==
    /\ token = 1
    /\ sent = <<>>
    /\ reply = NoReply
    /\ streams = <<>>
    /\ cursors = <<>>
    /\ call = Idle
    /\ ret = Ret("none", 0, 0, "None", 0, NoExc)
    /\ gen = NoGen

RecvUnused ==
    /\ recv_length = 0
    /\ recv_buf = <<>>
    /\ sock = <<>>
    /\ recv_state = "unused"
    /\ recv_eof = FALSE

\* No error is being located.
PrintUnused ==
    /\ pp_in = [op |-> "unused"]
    /\ pp_out = [op |-> "none"]

Init == SessionInit /\ RecvUnused /\ PrintUnused

\* The caller is between two operations: no call is active and the outcome
\* of the last one has been taken.
Ready == call = Idle /\ ret.op = "none"

StreamIds == 1..Len(streams)

\* The server's cursor for a result set: the token of the START request
\* that opened it, the rows delivered so far, and whether the last page went out.
NewCursor(tok) == [token |-> tok, rows |-> <<>>, done |-> FALSE]

\* The server's side of a round trip: the rows of a page are delivered, and a
\* SUCCESS_STREAM page ends the result set.
Delivered(cur, response) ==
    IF response.status_code \in {SUCCESS_STREAM, SUCCESS_PARTIAL}
    THEN [token |-> cur.token,
          rows |-> cur.rows \o [i \in 1..Len(response.response) |-> JsonLoads(response.response[i])],
          done |-> cur.done \/ response.status_code = SUCCESS_STREAM]
    ELSE cur

----------------------------------------------------------------------------
(* Operations *)

\* Connection.run(expr), answered by response.
Run(response) ==
    /\ Ready
    /\ Len(sent) < MaxSent
    /\ response.status_code \in {SUCCESS_STREAM, SUCCESS_PARTIAL} => Len(streams) < MaxStreams
    /\ LET expr == QueryText[Len(sent) + 1]
           t == GetToken(token)
           r == RunDispatch(response, expr)
           out == RunReturn(expr, t.token, r)
       IN  /\ token' = t.next
           /\ sent' = Append(sent, [token |-> t.token, type |-> "START", body |-> expr])
           /\ reply' = response
           /\ IF r.exc # NoExc
              THEN /\ ret' = Ret("run", 0, Len(sent), "raise", 0, r.exc)
                   /\ UNCHANGED <<streams, cursors>>
              ELSE IF out.stream
              THEN /\ streams' = Append(streams, out.it)
                   /\ cursors' = Append(cursors, Delivered(NewCursor(Last(sent').token), response))
                   /\ ret' = Ret("run", Len(streams) + 1, Len(sent), "stream", 0, NoExc)
              ELSE /\ ret' = Ret("run", 0, Len(sent), out.value.tag, out.value.n, NoExc)
                   /\ UNCHANGED <<streams, cursors>>
    /\ UNCHANGED <<call, gen>>
    /\ UNCHANGED <<recvVars, printVars>>

\* One execution of read_more on stream s with the server answering response;
\* shared by the direct call and by the loop of read_until.
DoReadMore(s, response) ==
    LET m == ReadMore(streams[s], response) IN
    /\ streams' = [streams EXCEPT ![s] = m.st]
    /\ sent' = sent \o m.frames
    /\ IF m.frames # <<>>
       THEN /\ reply' = response
            /\ cursors' = [cursors EXCEPT ![s] = Delivered(@, response)]
       ELSE /\ reply' = NoReply
            /\ UNCHANGED cursors

\* BatchedIterator.read_more() called directly.
CallReadMore(s, response) ==
    /\ Ready
    /\ s \in StreamIds
    /\ Len(sent) < MaxSent
    /\ DoReadMore(s, response)
    /\ LET m == ReadMore(streams[s], response) IN
       ret' = IF m.exc # NoExc THEN Ret("read_more", s, Len(sent), "raise", 0, m.exc)
              ELSE Ret("read_more", s, Len(sent), "None", 0, NoExc)
    /\ UNCHANGED <<token, call, gen>>
    /\ UNCHANGED <<recvVars, printVars>>

\* Entry of BatchedIterator.read_until(index); isNone: index is None.
CallReadUntil(s, isNone, index) ==
    /\ Ready
    /\ s \in StreamIds
    /\ call' = Frame("read_until", s, isNone, index, 0, <<>>)
    /\ ret' = Pending(call', Len(sent))
    /\ reply' = NoReply
    /\ UNCHANGED <<token, sent, streams, cursors, gen>>
    /\ UNCHANGED <<recvVars, printVars>>

\* A __getitem__ that calls read_until(key) for every integer key.
CallGetitemNoDrain(s, key) ==
    /\ Ready
    /\ s \in StreamIds
    /\ call' = Frame("getitem", s, FALSE, key, key, <<>>)
    /\ ret' = Pending(call', Len(sent))
    /\ reply' = NoReply
    /\ UNCHANGED <<token, sent, streams, cursors, gen>>
    /\ UNCHANGED <<recvVars, printVars>>

\* Entry of BatchedIterator.__getitem__(key) for an integer key: a negative
\* key calls read_until(None), any other key read_until(key).
CallGetitem(s, key) ==
    /\ Ready
    /\ s \in StreamIds
    /\ call' = IF key < 0 THEN Frame("getitem", s, TRUE, 0, key, <<>>)
               ELSE Frame("getitem", s, FALSE, key, key, <<>>)
    /\ ret' = Pending(call', Len(sent))
    /\ reply' = NoReply
    /\ UNCHANGED <<token, sent, streams, cursors, gen>>
    /\ UNCHANGED <<recvVars, printVars>>

\* BatchedIterator.__getitem__(index) for a slice: index.end is read, and a
\* slice object has no attribute `end` (its fields are start, stop, step).
CallGetitemSlice(s) ==
    /\ Ready
    /\ s \in StreamIds
    /\ ret' = Ret("getitem_slice", s, Len(sent), "raise", 0,
                  PyError("AttributeError", "'slice' object has no attribute 'end'"))
    /\ reply' = NoReply
    /\ UNCHANGED <<token, sent, streams, cursors, call, gen>>
    /\ UNCHANGED <<recvVars, printVars>>

\* BatchedIterator.__eq__(other) for an other that is no list.
CallEqNotList(s) ==
    /\ Ready
    /\ s \in StreamIds
    /\ ret' = Ret("eq_other", s, Len(sent), "NotImplemented", 0, NoExc)
    /\ reply' = NoReply
    /\ UNCHANGED <<token, sent, streams, cursors, call, gen>>
    /\ UNCHANGED <<recvVars, printVars>>

\* Entry of BatchedIterator.__eq__(other) for a list other: read_until(len(other)).
CallEq(s, other) ==
    /\ Ready
    /\ s \in StreamIds
    /\ call' = Frame("eq", s, FALSE, Len(other), 0, other)
    /\ ret' = Pending(call', Len(sent))
    /\ reply' = NoReply
    /\ UNCHANGED <<token, sent, streams, cursors, gen>>
    /\ UNCHANGED <<recvVars, printVars>>

\* A traversal `for x in stream` begins: __iter__ makes a generator whose
\* body has not started (index = 0 is set on the first resumption).
CallIter(s) ==
    /\ Ready
    /\ s \in StreamIds
    /\ call' = Frame("iter", s, FALSE, 0, 0, <<>>)
    /\ gen' = [state |-> "created", index |-> 0, yielded |-> <<>>]
    /\ ret' = Pending(call', Len(sent))
    /\ reply' = NoReply
    /\ UNCHANGED <<token, sent, streams, cursors>>
    /\ UNCHANGED <<recvVars, printVars>>

\* The traversal resumes the generator: after a yield index += 1, then the
\* while test; it either enters read_until(index) or the generator is
\* exhausted and the traversal ends with the items it was given.
IterNext ==
    /\ call.op = "iter"
    /\ gen.state \in {"created", "yielded"}
    /\ LET index == IF gen.state = "yielded" THEN gen.index + 1 ELSE 0 IN
       IF IterMore(streams[call.s], index)
       THEN /\ gen' = [gen EXCEPT !.state = "running", !.index = index]
            /\ call' = [call EXCEPT !.index = index]
            /\ UNCHANGED ret
       ELSE /\ gen' = NoGen
            /\ call' = Idle
            /\ ret' = [ret EXCEPT !.kind = "list", !.items = gen.yielded]
    /\ UNCHANGED <<token, sent, reply, streams, cursors>>
    /\ UNCHANGED <<recvVars, printVars>>

\* read_until is executing in the active frame.
InReadUntil == call # Idle /\ (call.op = "iter" => gen.state = "running")

\* One pass of the while loop of read_until: the loop test holds, read_more
\* runs one round trip answered by response.  An exception ends the call.
Fetch(response) ==
    /\ InReadUntil
    /\ ReadUntilMore(streams[call.s], call.isNone, call.index)
    /\ Len(sent) < MaxSent
    /\ DoReadMore(call.s, response)
    /\ LET m == ReadMore(streams[call.s], response) IN
       IF m.exc # NoExc
       THEN /\ call' = Idle
            /\ ret' = [ret EXCEPT !.kind = "raise", !.exc = m.exc]
            /\ gen' = NoGen
       ELSE UNCHANGED <<call, ret, gen>>
    /\ UNCHANGED token
    /\ UNCHANGED <<recvVars, printVars>>

\* The loop test of read_until fails: read_until returns and its caller
\* goes on (read_until: returns None; __getitem__: data[key]; __eq__: the
\* comparison; __iter__: yield data[index]).
Return ==
    /\ InReadUntil
    /\ ~ReadUntilMore(streams[call.s], call.isNone, call.index)
    /\ LET st == streams[call.s]
           pos == ListIndex(st.data, IF call.op = "iter" THEN call.index ELSE call.key)
       IN  CASE call.op = "read_until" ->
                    /\ ret' = [ret EXCEPT !.kind = "None"]
                    /\ call' = Idle
                    /\ UNCHANGED gen
             [] call.op = "eq" ->
                    /\ ret' = [ret EXCEPT !.kind = IF EqResult(st, call.other) THEN "True" ELSE "False"]
                    /\ call' = Idle
                    /\ UNCHANGED gen
             [] call.op = "getitem" ->
                    /\ ret' = IF pos = 0
                              THEN [ret EXCEPT !.kind = "raise",
                                               !.exc = PyError("IndexError", "list index out of range")]
                              ELSE [ret EXCEPT !.kind = "item", !.val = st.data[pos]]
                    /\ call' = Idle
                    /\ UNCHANGED gen
             [] call.op = "iter" ->
                    IF pos = 0
                    THEN /\ ret' = [ret EXCEPT !.kind = "raise",
                                               !.exc = PyError("IndexError", "list index out of range")]
                         /\ call' = Idle
                         /\ gen' = NoGen
                    ELSE /\ gen' = [gen EXCEPT !.state = "yielded", !.yielded = Append(@, st.data[pos])]
                         /\ UNCHANGED <<call, ret>>
    /\ UNCHANGED <<token, sent, reply, streams, cursors>>
    /\ UNCHANGED <<recvVars, printVars>>

\* The caller takes the outcome of the operation that just ended (its return
\* value or its exception) and is ready for the next one.
Resume ==
    /\ call = Idle
    /\ ret.op # "none"
    /\ ret' = Ret("none", 0, 0, "None", 0, NoExc)
    /\ reply' = NoReply
    /\ UNCHANGED <<token, sent, streams, cursors, call, gen>>
    /\ UNCHANGED <<recvVars, printVars>>

\* The lists a stream is compared with: the first n rows of a result set, and
\* the same with the last row replaced by another value.
Others ==
    {[i \in 1..n |-> i] : n \in 0..MaxOther}
    \cup {[i \in 1..n |-> IF i = n THEN n + 1 ELSE i] : n \in 1..MaxOther}

\* The rows the server has delivered so far for the token of stream s.
RowsSent(s) == Len(cursors[s].rows)

Next ==
    \/ \E response \in Responses(0) : Run(response)
    \/ \E s \in StreamIds : \E response \in Responses(RowsSent(s)) : CallReadMore(s, response)
    \/ \E s \in StreamIds, index \in 0..MaxIndex : CallReadUntil(s, FALSE, index)
    \/ \E s \in StreamIds : CallReadUntil(s, TRUE, 0)
    \/ \E s \in StreamIds, key \in (-MaxIndex)..MaxIndex : CallGetitem(s, key)
    \/ \E s \in StreamIds, other \in Others : CallEq(s, other)
    \/ \E s \in StreamIds : CallGetitemSlice(s)
    \/ \E s \in StreamIds : CallEqNotList(s)
    \/ \E s \in StreamIds : CallIter(s)
    \/ IterNext
    \/ call # Idle /\ \E response \in Responses(RowsSent(call.s)) : Fetch(response)
    \/ Return
    \/ Resume

Spec == Init /\ [][Next]_vars

----------------------------------------------------------------------------
(* Connection._recvall(length) on a socket whose peer has written the bytes *)
(* of sock and then closed the connection.                                  *)

RecvInit ==
    /\ SessionInit
    /\ PrintUnused
    /\ recv_length \in 0..MaxLen
    /\ sock \in SeqsUpTo({0, 1}, MaxSock)
    /\ recv_buf = <<>>
    /\ recv_state = "loop"
    /\ recv_eof = FALSE

\* The while test of _recvall.
RecvMore(buf, length) == Len(buf) # length

\* socket.recv(n) with data available: between 1 and n of the waiting bytes.
RecvChunk(k) ==
    /\ recv_state = "loop"
    /\ RecvMore(recv_buf, recv_length)
    /\ k \in 1..(recv_length - Len(recv_buf))
    /\ k <= Len(sock)
    /\ recv_buf' = recv_buf \o SubSeq(sock, 1, k)
    /\ sock' = SubSeq(sock, k + 1, Len(sock))
    /\ recv_eof' = FALSE
    /\ UNCHANGED <<recv_length, recv_state>>
    /\ UNCHANGED <<sessionVars, printVars>>

\* socket.recv(n) at end of stream returns the empty string: buf += "" and
\* the loop goes round again.
RecvEnd ==
    /\ recv_state = "loop"
    /\ RecvMore(recv_buf, recv_length)
    /\ sock = <<>>
    /\ recv_buf' = recv_buf \o <<>>
    /\ recv_eof' = TRUE
    /\ UNCHANGED <<recv_length, sock, recv_state>>
    /\ UNCHANGED <<sessionVars, printVars>>

\* The while test fails: return buf.
RecvReturn ==
    /\ recv_state = "loop"
    /\ ~RecvMore(recv_buf, recv_length)
    /\ recv_state' = "returned"
    /\ UNCHANGED <<recv_length, recv_buf, sock, recv_eof>>
    /\ UNCHANGED <<sessionVars, printVars>>

RecvNext ==
    \/ \E k \in 1..MaxLen : RecvChunk(k)
    \/ RecvEnd
    \/ RecvReturn

RecvSpec == RecvInit /\ [][RecvNext]_vars

----------------------------------------------------------------------------
(* Properties *)

\* A traversal of stream ret.s has just ended normally.
Traversed == ret.op = "iter" /\ ret.kind = "list"

\* C1: one full traversal of a stream (__iter__) yields every row of the
\* result set in arrival order, fetching further pages on demand: when the
\* traversal ends the stream is complete and the items it was given are all
\* the rows the server delivered for the stream, in order.
C1_TraversalYieldsAllRows ==
    Traversed =>
        /\ streams[ret.s].complete
        /\ cursors[ret.s].done
        /\ ret.items = cursors[ret.s].rows

\* C2: a traversal of a stream that was fully drained before (its pages were
\* [1,2] then [3] or any other split of three rows, the last one complete)
\* yields [1,2,3], and it sends no request.
C2_DrainedTraversalYieldsRows ==
    (/\ Traversed
     /\ streams[ret.s].complete
     /\ streams[ret.s].data = <<1, 2, 3>>
     /\ \E i \in 1..Len(sent) : sent[i] = streams[ret.s].more_query)
        => /\ ret.items = <<1, 2, 3>>
           /\ Len(sent) = ret.mark

\* read_until(None) on stream ret.s has just returned.
Drained == ret.op = "read_until" /\ ret.frame.isNone /\ ret.kind = "None"

\* C3: when read_until(None) returns, the stream is complete and its
\* accumulated items are the rows of the first page and of every fetched
\* page, in arrival order: nothing lost, duplicated or reordered; and the
\* drain stops fetching as soon as the SUCCESS_STREAM page has arrived.
C3_DrainAccumulatesAllPages ==
    /\ Drained =>
            /\ streams[ret.s].complete
            /\ cursors[ret.s].done
            /\ streams[ret.s].data = cursors[ret.s].rows
    /\ (call.op = "read_until" /\ call.isNone /\ cursors[call.s].done) =>
            ~ReadUntilMore(streams[call.s], call.isNone, call.index)

\* C3 witness: a drain that fetched pages and ended with three rows.
C3_Witness ==
    /\ Drained
    /\ Len(sent) > ret.mark
    /\ streams[ret.s].data = <<1, 2, 3>>

\* C4: when socket.recv returns zero bytes while fewer than length bytes are
\* buffered, _recvall fails with a transport error (it does not go on looping).
C4_EndOfStreamRaises ==
    (recv_eof /\ Len(recv_buf) < recv_length) => recv_state = "raised"

\* The START frames sent so far, in order.
Starts == SelectSeq(sent, LAMBDA f : f.type = "START")

\* C5: the n-th START frame of the Session carries token n, whatever
\* CONTINUE frames and failed requests lie in between, and the counter is
\* one past the last token handed out.
C5_TokensCountRuns ==
    /\ \A n \in 1..Len(Starts) : Starts[n].token = n
    /\ token = Len(Starts) + 1

\* C5 witness: after a run and a page fetch, a second run that fails still
\* carried token 2.
C5_Witness ==
    /\ Len(sent) = 3
    /\ sent[2].type = "CONTINUE"
    /\ sent[3].type = "START"
    /\ sent[3].token = 2
    /\ ret.op = "run"
    /\ ret.kind = "raise"

\* This step sent a frame, and the frame was a CONTINUE / a START.
SentFrame == Len(sent') > Len(sent)
SentContinue == SentFrame /\ Last(sent').type = "CONTINUE"
SentStart == SentFrame /\ Last(sent').type = "START"

\* C6: once the completion flag of a stream is set, no step of any operation
\* sends a CONTINUE frame with the stream's token.
C6_NoFetchOnceComplete ==
    [][\A s \in StreamIds :
          streams[s].complete =>
              \A i \in (Len(sent) + 1)..Len(sent') : sent'[i] # streams[s].more_query]_vars

\* C6 witness: read_more called on a complete stream returned without a
\* round trip.
C6_Witness ==
    /\ ret.op = "read_more"
    /\ ret.kind = "None"
    /\ streams[ret.s].complete
    /\ Len(sent) = ret.mark

PageCodes == {SUCCESS_STREAM, SUCCESS_PARTIAL}

\* C7: a page fetch whose reply is not a page (an error status, an
\* unrecognized status, or a success whose payload is no list) raises to the
\* caller and leaves every stream's items and completion flag as they were.
C7_FailedFetchLeavesStream ==
    [][(SentContinue /\ reply'.status_code \notin PageCodes) =>
          /\ streams' = streams
          /\ ret'.kind = "raise"
          /\ ret'.exc # NoExc
          /\ call' = Idle]_vars

\* C7 witness: a fetch inside read_until failed on a payload that cannot be
\* appended, on a stream that holds rows and is not complete.
C7_Witness ==
    /\ ret.op = "read_until"
    /\ ret.kind = "raise"
    /\ ret.exc.type = "TypeError"
    /\ streams[ret.s].data # <<>>
    /\ ~streams[ret.s].complete

\* __eq__ on stream ret.s has just returned.
EqReturned == ret.op = "eq" /\ ret.kind \in {"True", "False"}

\* C8: __eq__ returns True exactly when the result set is complete and its
\* rows equal the list; when it returns on a stream that is not complete the
\* rows already outnumber the list; and it fetches only while the accumulated
\* length does not exceed the length of the list.
C8_EqualityComparesFullContent ==
    /\ [](EqReturned =>
            LET cur == cursors[ret.s]
                other == ret.frame.other
            IN  /\ (ret.kind = "True") <=> (cur.done /\ cur.rows = other)
                /\ ~cur.done => Len(cur.rows) > Len(other))
    /\ [][(SentContinue /\ call.op = "eq") =>
            Len(streams[call.s].data) <= Len(call.other)]_vars

\* C8 witness: a comparison that fetched the completing page and found the
\* stream equal to [1, 2].
C8_Witness ==
    /\ EqReturned
    /\ ret.kind = "True"
    /\ ret.frame.other = <<1, 2>>
    /\ Len(sent) > ret.mark

\* The rows json.loads gives for the payload of a response.
Parsed(response) == [i \in 1..Len(response.response) |-> JsonLoads(response.response[i])]

\* C9: run returns a stream exactly for SUCCESS_STREAM and SUCCESS_PARTIAL;
\* the stream holds the payload's items in order and the token of the START
\* frame, and is complete iff the status is SUCCESS_STREAM.  SUCCESS_JSON
\* returns the parsed value, SUCCESS_EMPTY returns None; no stream is made.
C9_StartReplyDispatch ==
    [][SentStart =>
          LET code == reply'.status_code IN
          /\ (ret'.kind = "stream") <=> (code \in PageCodes)
          /\ code \in PageCodes =>
                /\ ret'.s = Len(streams) + 1
                /\ streams' = Append(streams,
                        [query |-> QueryText[Len(sent')],
                         token |-> Last(sent').token,
                         data |-> Parsed(reply'),
                         complete |-> (code = SUCCESS_STREAM),
                         more_query |-> [token |-> Last(sent').token, type |-> "CONTINUE",
                                        body |-> NoBody]])
          /\ code \notin PageCodes => streams' = streams
          /\ code = SUCCESS_JSON => ret'.kind = "json" /\ ret'.val = JsonLoads(reply'.response[1])
          /\ code = SUCCESS_EMPTY => ret'.kind = "None"]_vars

\* C9 witness: run returned a stream of two rows that is not complete.
C9_Witness ==
    /\ ret.op = "run"
    /\ ret.kind = "stream"
    /\ streams[ret.s].data = <<1, 2>>
    /\ ~streams[ret.s].complete
    /\ reply.status_code = SUCCESS_PARTIAL

SuccessCodes == {SUCCESS_JSON, SUCCESS_STREAM, SUCCESS_PARTIAL, SUCCESS_EMPTY}

\* The expression that belongs to the frame just sent: the one submitted
\* with a START, the stream's own for a CONTINUE.
OriginalExpr ==
    IF Last(sent').type = "START" THEN QueryText[Len(sent')]
    ELSE streams[CHOOSE s \in StreamIds : streams[s].token = Last(sent').token].query

\* C10: a response whose status is none of the four success codes makes run
\* (and read_more) raise at once: the operation ends, one frame was sent and
\* none follows, no stream is made or changed.  RUNTIME_ERROR raises an
\* ExecutionError and BAD_QUERY a BadQueryError with the response's message
\* and backtrace and the original expression; BROKEN_CLIENT and unrecognized
\* codes raise a ValueError.
C10_ErrorStatusRaises ==
    [][(SentFrame /\ reply'.status_code \notin SuccessCodes) =>
          LET code == reply'.status_code IN
          /\ Len(sent') = Len(sent) + 1
          /\ ret'.kind = "raise"
          /\ call' = Idle
          /\ streams' = streams
          /\ code = RUNTIME_ERROR =>
                ret'.exc = [type |-> "ExecutionError", message |-> reply'.error_message,
                            ast_path |-> reply'.backtrace, query |-> OriginalExpr]
          /\ code = BAD_QUERY =>
                ret'.exc = [type |-> "BadQueryError", message |-> reply'.error_message,
                            ast_path |-> reply'.backtrace, query |-> OriginalExpr]
          /\ code \notin {RUNTIME_ERROR, BAD_QUERY} => ret'.exc.type = "ValueError"]_vars

\* C10 witness: a page fetch of the second stream answered BAD_QUERY raised a
\* BadQueryError that carries the second stream's expression.
C10_Witness ==
    /\ ret.op = "read_more"
    /\ ret.kind = "raise"
    /\ ret.exc.type = "BadQueryError"
    /\ ret.exc.ast_path = <<1>>
    /\ ret.s = 2
    /\ ret.exc.query = "q2"

\* __getitem__(key) on stream ret.s has returned an item or raised IndexError.
GetitemReturned ==
    /\ ret.op = "getitem"
    /\ \/ ret.kind = "item"
       \/ ret.kind = "raise" /\ ret.exc.type = "IndexError"

\* C11: __getitem__(i) for i >= 0 returns the i-th row of the pages received
\* so far, and raises IndexError exactly when the result set is complete and
\* holds no more than i rows; it fetches a page only while the stream holds
\* no more than i rows and is not complete.
C11_IndexedAccess ==
    /\ [](GetitemReturned /\ ret.frame.key >= 0 =>
            LET cur == cursors[ret.s]
                i == ret.frame.key
            IN  /\ streams[ret.s].data = cur.rows
                /\ (ret.kind = "item") <=> (i < Len(cur.rows))
                /\ ret.kind = "item" => ret.val = cur.rows[i + 1]
                /\ ret.kind = "raise" => cur.done /\ i >= Len(cur.rows))
    /\ [][(SentContinue /\ call.op = "getitem" /\ call.key >= 0) =>
            /\ Len(streams[call.s].data) <= call.key
            /\ ~streams[call.s].complete]_vars

\* C11 witness: __getitem__(2) fetched a page and returned the third row.
C11_Witness ==
    /\ GetitemReturned
    /\ ret.frame.key = 2
    /\ ret.kind = "item"
    /\ ret.val = 3
    /\ Len(sent) > ret.mark

\* C12: when __getitem__ with a negative key returns, the stream is complete
\* and the item is counted back from the end of the whole result set; an
\* IndexError means the whole result set is shorter than the key asks for.
C12_NegativeIndexDrains ==
    GetitemReturned /\ ret.frame.key < 0 =>
        LET cur == cursors[ret.s]
            n == Len(cur.rows)
            k == ret.frame.key
        IN  /\ streams[ret.s].complete
            /\ cur.done
            /\ streams[ret.s].data = cur.rows
            /\ (ret.kind = "item") <=> (-k <= n)
            /\ ret.kind = "item" => ret.val = cur.rows[n + k + 1]

\* C12 witness: __getitem__(-2) on a stream that was not complete drained it
\* to three rows and returned the second one.
C12_Witness ==
    /\ GetitemReturned
    /\ ret.frame.key = -2
    /\ ret.kind = "item"
    /\ ret.val = 2
    /\ Len(cursors[ret.s].rows) = 3
    /\ Len(sent) > ret.mark

\* C13: when read_until(i) returns for i >= 0, the stream holds more than i
\* rows or is complete; it fetches a page only while neither is the case.
C13_ReadUntilPostcondition ==
    /\ [](ret.op = "read_until" /\ ~ret.frame.isNone /\ ret.kind = "None" =>
            \/ Len(streams[ret.s].data) > ret.frame.index
            \/ streams[ret.s].complete)
    /\ [][(SentContinue /\ call.op = "read_until" /\ ~call.isNone) =>
            /\ Len(streams[call.s].data) <= call.index
            /\ ~streams[call.s].complete]_vars

\* C13 witness: read_until(1) fetched a page and returned on a stream that
\* holds two rows and is not complete.
C13_Witness ==
    /\ ret.op = "read_until"
    /\ ~ret.frame.isNone
    /\ ret.frame.index = 1
    /\ ret.kind = "None"
    /\ Len(streams[ret.s].data) = 2
    /\ ~streams[ret.s].complete
    /\ Len(sent) > ret.mark

\* q is p followed by zero or more elements.
IsPrefix(p, q) == Len(p) <= Len(q) /\ SubSeq(q, 1, Len(p)) = p

\* C14: in every step, also one whose fetch fails, each stream keeps the rows
\* it holds as a prefix of the rows it holds afterwards, and a completion
\* flag that is set stays set; no stream is dropped.
C14_AppendOnly ==
    [][/\ Len(streams') >= Len(streams)
       /\ \A s \in StreamIds :
            /\ IsPrefix(streams[s].data, streams'[s].data)
            /\ streams[s].complete => streams'[s].complete]_vars

\* C14 witness: a __getitem__ fetched one page and failed on the next fetch;
\* the stream still holds two rows and is not complete.
C14_Witness ==
    /\ ret.op = "getitem"
    /\ ret.kind = "raise"
    /\ ret.exc.type = "ExecutionError"
    /\ Len(sent) >= ret.mark + 2
    /\ Len(streams[ret.s].data) = 2
    /\ ~streams[ret.s].complete

\* The stream whose operation takes this step.
FetchedStream == IF call # Idle THEN call.s ELSE ret'.s

\* C19: every CONTINUE frame carries the token of the START request that
\* opened the stream being fetched and no body; the token is no other
\* stream's, and no token is allocated for the fetch.
C19_ContinueCarriesStreamToken ==
    [][SentContinue =>
          LET s == FetchedStream
              f == Last(sent')
          IN  /\ Len(sent') = Len(sent) + 1
              /\ f.token = cursors[s].token
              /\ \E i \in 1..Len(sent) : sent[i].type = "START" /\ sent[i].token = f.token
              /\ f.body = NoBody
              /\ \A o \in StreamIds \ {s} : cursors[o].token # f.token
              /\ token' = token]_vars

\* C19 witness: two streams that are not complete were fetched in the
\* reverse of the order they were opened in.
C19_Witness ==
    /\ Len(sent) = 4
    /\ sent[1].type = "START" /\ sent[2].type = "START"
    /\ sent[3] = [token |-> 2, type |-> "CONTINUE", body |-> NoBody]
    /\ sent[4] = [token |-> 1, type |-> "CONTINUE", body |-> NoBody]

----------------------------------------------------------------------------
(* Error location: texts *)

\* A text is the sequence of its characters.  NUL is the character "\0".
NUL == "\\0"
PRETTY_PRINT_BEGIN_TARGET == <<NUL, "b", "e", "g", "i", "n", NUL>>
PRETTY_PRINT_END_TARGET == <<NUL, "e", "n", "d", NUL>>

\* c * n
Fill(c, n) == [i \in 1..n |-> c]

\* sub occurs in s at position i.
OccursAt(s, sub, i) ==
    /\ i + Len(sub) - 1 <= Len(s)
    /\ SubSeq(s, i, i + Len(sub) - 1) = sub

\* sub in s
Contains(s, sub) == \E i \in 1..Len(s) : OccursAt(s, sub, i)

\* s.count(sub): occurrences that do not overlap, from the left.
RECURSIVE CountFrom(_, _, _)
CountFrom(s, sub, i) ==
    IF i + Len(sub) - 1 > Len(s) THEN 0
    ELSE IF OccursAt(s, sub, i) THEN 1 + CountFrom(s, sub, i + Len(sub))
    ELSE CountFrom(s, sub, i + 1)

Count(s, sub) == CountFrom(s, sub, 1)

\* s.split(sep): the pieces of s between the occurrences of sep.
RECURSIVE SplitFrom(_, _, _, _)
SplitFrom(s, sep, i, start) ==
    IF i + Len(sep) - 1 > Len(s) THEN <<SubSeq(s, start, Len(s))>>
    ELSE IF OccursAt(s, sep, i)
    THEN <<SubSeq(s, start, i - 1)>> \o SplitFrom(s, sep, i + Len(sep), i + Len(sep))
    ELSE SplitFrom(s, sep, i + 1, start)

Split(s, sep) == SplitFrom(s, sep, 1, 1)

\* s.rstrip(" ") and s.lstrip(" ")
RECURSIVE RStrip(_)
RStrip(s) == IF s # <<>> /\ s[Len(s)] = " " THEN RStrip(SubSeq(s, 1, Len(s) - 1)) ELSE s

RECURSIVE LStrip(_)
LStrip(s) == IF s # <<>> /\ s[1] = " " THEN LStrip(Tail(s)) ELSE s

\* sep.join(parts)
RECURSIVE Join(_, _)
Join(parts, sep) ==
    IF parts = <<>> THEN <<>>
    ELSE IF Len(parts) = 1 THEN parts[1]
    ELSE parts[1] \o sep \o Join(Tail(parts), sep)

\* "..."
Dots == <<".", ".", ".">>

----------------------------------------------------------------------------
(* BacktracePrettyPrinter.consider_backtrace *)

MaxPath == 2        \* length of current_backtrace and of backtrace_steps

\* How a call ended: the text it returned or the exception it raised, and
\* the number of passes through the prefix-matching loop.
Returned(string, n) == [exc |-> "none", string |-> string, iterations |-> n]
Raised(type, n) == [exc |-> type, string |-> <<>>, iterations |-> n]

\* A prefix-matching loop without the test for the end of the target path.
RECURSIVE PrefixLoopNoTargetEnd(_, _, _, _, _)
PrefixLoopNoTargetEnd(complete_backtrace, target_backtrace, string, prefix_match_length, n) ==
    IF prefix_match_length = Len(complete_backtrace)
    THEN Returned(string, n)
    ELSE IF \/ prefix_match_length >= Len(complete_backtrace)
            \/ prefix_match_length >= Len(target_backtrace)
    THEN Raised("IndexError", n)
    ELSE IF complete_backtrace[prefix_match_length + 1] = target_backtrace[prefix_match_length + 1]
    THEN PrefixLoopNoTargetEnd(complete_backtrace, target_backtrace, string,
                               prefix_match_length + 1, n + 1)
    ELSE IF Len(complete_backtrace) > prefix_match_length + 2 \/ Len(string) > 60
    THEN Returned(IF Len(string) > 8 THEN Dots ELSE string, n)
    ELSE Returned(string, n)

\* A prefix-matching loop that also cuts a long text on the path to the target.
RECURSIVE PrefixLoopCutsAncestors(_, _, _, _, _)
PrefixLoopCutsAncestors(complete_backtrace, target_backtrace, string, prefix_match_length, n) ==
    IF prefix_match_length = Len(complete_backtrace)
    THEN IF Len(string) > 60 THEN Returned(Dots, n) ELSE Returned(string, n)
    ELSE IF prefix_match_length = Len(target_backtrace)
    THEN IF Len(complete_backtrace) > Len(target_backtrace) + 2 \/ Len(string) > 60
         THEN Returned(IF Len(string) > 8 THEN Dots ELSE string, n)
         ELSE Returned(string, n)
    ELSE IF \/ prefix_match_length >= Len(complete_backtrace)
            \/ prefix_match_length >= Len(target_backtrace)
    THEN Raised("IndexError", n)
    ELSE IF complete_backtrace[prefix_match_length + 1] = target_backtrace[prefix_match_length + 1]
    THEN PrefixLoopCutsAncestors(complete_backtrace, target_backtrace, string,
                                 prefix_match_length + 1, n + 1)
    ELSE IF Len(complete_backtrace) > prefix_match_length + 2 \/ Len(string) > 60
    THEN Returned(IF Len(string) > 8 THEN Dots ELSE string, n)
    ELSE Returned(string, n)

\* A prefix-matching loop that keeps a branch only one step off the path.
RECURSIVE PrefixLoopShortSlack(_, _, _, _, _)
PrefixLoopShortSlack(complete_backtrace, target_backtrace, string, prefix_match_length, n) ==
    IF prefix_match_length = Len(complete_backtrace)
    THEN Returned(string, n)
    ELSE IF prefix_match_length = Len(target_backtrace)
    THEN IF Len(complete_backtrace) > Len(target_backtrace) + 1 \/ Len(string) > 60
         THEN Returned(IF Len(string) > 8 THEN Dots ELSE string, n)
         ELSE Returned(string, n)
    ELSE IF \/ prefix_match_length >= Len(complete_backtrace)
            \/ prefix_match_length >= Len(target_backtrace)
    THEN Raised("IndexError", n)
    ELSE IF complete_backtrace[prefix_match_length + 1] = target_backtrace[prefix_match_length + 1]
    THEN PrefixLoopShortSlack(complete_backtrace, target_backtrace, string,
                              prefix_match_length + 1, n + 1)
    ELSE IF Len(complete_backtrace) > prefix_match_length + 1 \/ Len(string) > 60
    THEN Returned(IF Len(string) > 8 THEN Dots ELSE string, n)
    ELSE Returned(string, n)

\* The while loop of consider_backtrace, entered for the n-th time with the
\* given prefix_match_length.  Reading a list at an index that is not below
\* its length raises IndexError.
RECURSIVE PrefixLoop(_, _, _, _, _)
PrefixLoop(complete_backtrace, target_backtrace, string, prefix_match_length, n) ==
    IF prefix_match_length = Len(complete_backtrace)
    THEN Returned(string, n)
    ELSE IF prefix_match_length = Len(target_backtrace)
    THEN IF Len(complete_backtrace) > Len(target_backtrace) + 2 \/ Len(string) > 60
         THEN Returned(IF Len(string) > 8 THEN Dots ELSE string, n)
         ELSE Returned(string, n)
    ELSE IF \/ prefix_match_length >= Len(complete_backtrace)
            \/ prefix_match_length >= Len(target_backtrace)
    THEN Raised("IndexError", n)
    ELSE IF complete_backtrace[prefix_match_length + 1] = target_backtrace[prefix_match_length + 1]
    THEN PrefixLoop(complete_backtrace, target_backtrace, string, prefix_match_length + 1, n + 1)
    ELSE IF Len(complete_backtrace) > prefix_match_length + 2 \/ Len(string) > 60
    THEN Returned(IF Len(string) > 8 THEN Dots ELSE string, n)
    ELSE Returned(string, n)

\* consider_backtrace(string, backtrace_steps) of a printer with the given
\* current_backtrace and target_backtrace.  asserts: the interpreter runs
\* assert statements (it does not under -O).
ConsiderBacktrace(current_backtrace, target_backtrace, string, backtrace_steps, asserts) ==
    LET complete_backtrace == current_backtrace \o backtrace_steps IN
    IF complete_backtrace = target_backtrace
    THEN IF asserts /\ (\/ Contains(string, PRETTY_PRINT_BEGIN_TARGET)
                        \/ Contains(string, PRETTY_PRINT_END_TARGET))
         THEN Raised("AssertionError", 0)
         ELSE Returned(PRETTY_PRINT_BEGIN_TARGET \o string \o PRETTY_PRINT_END_TARGET, 0)
    ELSE PrefixLoop(complete_backtrace, target_backtrace, string, 0, 1)

\* The steps of a backtrace, the lengths of the texts, and the texts handed
\* to consider_backtrace: plain ones and one that has the target inside.
StepNames == {0, 1}
TextLengths == {0, 8, 9, 60, 61}
Texts ==
    {Fill("x", n) : n \in TextLengths}
        \cup {PRETTY_PRINT_BEGIN_TARGET \o <<"x">> \o PRETTY_PRINT_END_TARGET}

BacktraceInit ==
    /\ SessionInit
    /\ RecvUnused
    /\ pp_in \in [op : {"consider_backtrace"},
                  current_backtrace : SeqsUpTo(StepNames, MaxPath),
                  backtrace_steps : SeqsUpTo(StepNames, MaxPath),
                  target_backtrace : SeqsUpTo(StepNames, MaxPath + 1),
                  string : Texts,
                  asserts : BOOLEAN]
    /\ pp_out = [op |-> "none"]

\* One call of consider_backtrace.
ConsiderBacktraceCall ==
    /\ pp_in.op = "consider_backtrace"
    /\ pp_out.op = "none"
    /\ pp_out' = [op |-> "consider_backtrace",
                  result |-> ConsiderBacktrace(pp_in.current_backtrace, pp_in.target_backtrace,
                                               pp_in.string, pp_in.backtrace_steps,
                                               pp_in.asserts)]
    /\ UNCHANGED pp_in
    /\ UNCHANGED <<sessionVars, recvVars>>

BacktraceNext == ConsiderBacktraceCall

BacktraceSpec == BacktraceInit /\ [][BacktraceNext]_vars

\* The combined path of the call and the length of what it shares with the
\* target path from the front.
Combined == pp_in.current_backtrace \o pp_in.backtrace_steps
CommonPrefixLen(a, b) ==
    CHOOSE k \in 0..Len(a) :
        /\ k <= Len(b)
        /\ SubSeq(a, 1, k) = SubSeq(b, 1, k)
        /\ k < Len(a) /\ k < Len(b) => a[k + 1] # b[k + 1]
MarkerFree(s) ==
    /\ ~Contains(s, PRETTY_PRINT_BEGIN_TARGET)
    /\ ~Contains(s, PRETTY_PRINT_END_TARGET)

Min(a, b) == IF a <= b THEN a ELSE b

\* C20: the prefix-matching loop of consider_backtrace ends within
\* min(len(combined), len(target)) + 1 passes and reads no path at an index
\* beyond its end.
C20_PrefixLoopTerminates ==
    pp_out.op = "consider_backtrace" =>
        /\ pp_out.result.exc # "IndexError"
        /\ pp_out.result.iterations <= Min(Len(Combined), Len(pp_in.target_backtrace)) + 1

\* C20 witness: a combined path of two steps below an empty target path
\* left the loop in its first pass.
C20_Witness ==
    /\ pp_out.op = "consider_backtrace"
    /\ pp_in.target_backtrace = <<>>
    /\ Len(Combined) = 2
    /\ pp_out.result.iterations = 1

----------------------------------------------------------------------------
(* QueryError.location: from the bracketed text to the caret display *)

MaxTarget == 4      \* characters between the two markers

\* What one pass of the for loop appends and how it leaves in_target;
\* exc is the ValueError of a tuple assignment from a split that did not
\* give two pieces.
Formatted(lines, in_target) == [exc |-> "none", lines |-> lines, in_target |-> in_target]
Unpack == [exc |-> "ValueError", lines |-> <<>>, in_target |-> FALSE]

\* A loop body that underlines a line inside the region from its first column.
FormatLineFullWidth(raw, in_target) ==
    LET line == RStrip(raw) IN
    IF ~in_target
    THEN IF Contains(line, PRETTY_PRINT_BEGIN_TARGET)
         THEN IF Contains(line, PRETTY_PRINT_END_TARGET)
              THEN LET outer == Split(line, PRETTY_PRINT_BEGIN_TARGET) IN
                   IF Len(outer) # 2 THEN Unpack
                   ELSE LET before == outer[1]
                            inner == Split(outer[2], PRETTY_PRINT_END_TARGET)
                        IN  IF Len(inner) # 2 THEN Unpack
                            ELSE LET target == inner[1]
                                     after == inner[2]
                                 IN  Formatted(<<before \o target \o after,
                                                 Fill(" ", Len(before)) \o Fill("^", Len(target))>>,
                                               FALSE)
              ELSE LET outer == Split(line, PRETTY_PRINT_BEGIN_TARGET) IN
                   IF Len(outer) # 2 THEN Unpack
                   ELSE LET before == outer[1]
                            after == outer[2]
                        IN  Formatted(<<before \o after,
                                        Fill(" ", Len(before)) \o Fill("^", Len(after))>>,
                                      TRUE)
         ELSE Formatted(<<line>>, FALSE)
    ELSE IF Contains(line, PRETTY_PRINT_END_TARGET)
         THEN LET outer == Split(line, PRETTY_PRINT_END_TARGET) IN
              IF Len(outer) # 2 THEN Unpack
              ELSE LET before == outer[1]
                       after == outer[2]
                   IN  Formatted(<<before \o after, Fill("^", Len(before))>>, FALSE)
         ELSE Formatted(<<line, Fill("^", Len(line))>>, TRUE)

\* The body of the for loop of location() for the line raw.
FormatLine(raw, in_target) ==
    LET line == RStrip(raw) IN
    IF ~in_target
    THEN IF Contains(line, PRETTY_PRINT_BEGIN_TARGET)
         THEN IF Contains(line, PRETTY_PRINT_END_TARGET)
              THEN LET outer == Split(line, PRETTY_PRINT_BEGIN_TARGET) IN
                   IF Len(outer) # 2 THEN Unpack
                   ELSE LET before == outer[1]
                            inner == Split(outer[2], PRETTY_PRINT_END_TARGET)
                        IN  IF Len(inner) # 2 THEN Unpack
                            ELSE LET target == inner[1]
                                     after == inner[2]
                                 IN  Formatted(<<before \o target \o after,
                                                 Fill(" ", Len(before)) \o Fill("^", Len(target))>>,
                                               FALSE)
              ELSE LET outer == Split(line, PRETTY_PRINT_BEGIN_TARGET) IN
                   IF Len(outer) # 2 THEN Unpack
                   ELSE LET before == outer[1]
                            after == outer[2]
                        IN  Formatted(<<before \o after,
                                        Fill(" ", Len(before)) \o Fill("^", Len(after))>>,
                                      TRUE)
         ELSE Formatted(<<line>>, FALSE)
    ELSE LET without_spaces == LStrip(line)
             spaces == Fill(" ", Len(line) - Len(without_spaces))
         IN  IF Contains(without_spaces, PRETTY_PRINT_END_TARGET)
             THEN LET outer == Split(without_spaces, PRETTY_PRINT_END_TARGET) IN
                  IF Len(outer) # 2 THEN Unpack
                  ELSE LET before == outer[1]
                           after == outer[2]
                       IN  Formatted(<<spaces \o before \o after,
                                       spaces \o Fill("^", Len(before))>>,
                                     FALSE)
             ELSE Formatted(<<spaces \o without_spaces,
                              spaces \o Fill("^", Len(without_spaces))>>,
                            TRUE)

\* The for loop of location() over the lines still to come.
RECURSIVE FormatLines(_, _)
FormatLines(lines, in_target) ==
    IF lines = <<>> THEN Formatted(<<>>, in_target)
    ELSE LET first == FormatLine(lines[1], in_target) IN
         IF first.exc # "none" THEN first
         ELSE LET rest == FormatLines(Tail(lines), first.in_target) IN
              IF rest.exc # "none" THEN rest
              ELSE Formatted(first.lines \o rest.lines, rest.in_target)

\* A caret conversion without the count of the markers.
CaretsUncounted(query_str) ==
    LET formatted == FormatLines(Split(query_str, <<"\n">>), FALSE) IN
    IF formatted.exc # "none" THEN [exc |-> formatted.exc, string |-> <<>>]
    ELSE [exc |-> "none", string |-> Join(formatted.lines, <<"\n">>)]

\* location() from the marker count on: the caret display of query_str or
\* the exception raised.
Carets(query_str) ==
    IF ~(/\ Count(query_str, PRETTY_PRINT_BEGIN_TARGET) = Count(query_str, PRETTY_PRINT_END_TARGET)
         /\ Count(query_str, PRETTY_PRINT_END_TARGET) = 1)
    THEN [exc |-> "ValueError", string |-> <<>>]
    ELSE LET formatted == FormatLines(Split(query_str, <<"\n">>), FALSE) IN
         IF formatted.exc # "none" THEN [exc |-> formatted.exc, string |-> <<>>]
         ELSE [exc |-> "none", string |-> Join(formatted.lines, <<"\n">>)]

\* The rendered texts given to the caret conversion: one begin marker in
\* front of one end marker; between them letters, blanks and line breaks,
\* around them nothing or one of these; and the rendering "add(1, 2)" with
\* the target 2.
TextChars == {"a", " ", "\n"}
Margins == {<<>>} \cup {<<c>> : c \in TextChars}
Bracketed(before, target, after) ==
    before \o PRETTY_PRINT_BEGIN_TARGET \o target \o PRETTY_PRINT_END_TARGET \o after
AddExample == Bracketed(<<"a", "d", "d", "(", "1", ",", " ">>, <<"2">>, <<")">>)
CaretTexts ==
    {Bracketed(before, target, after) :
        before \in Margins,
        target \in SeqsUpTo(TextChars, MaxTarget),
        after \in Margins} \cup {AddExample}

CaretInit ==
    /\ SessionInit
    /\ RecvUnused
    /\ pp_in \in [op : {"carets"}, query_str : CaretTexts]
    /\ pp_out = [op |-> "none"]

\* location() once the query has been rendered as query_str.
LocationCarets ==
    /\ pp_in.op = "carets"
    /\ pp_out.op = "none"
    /\ pp_out' = [op |-> "carets", result |-> Carets(pp_in.query_str)]
    /\ UNCHANGED pp_in
    /\ UNCHANGED <<sessionVars, recvVars>>

CaretNext == LocationCarets

CaretSpec == CaretInit /\ [][CaretNext]_vars

\* The lines of the rendered text, and the line each marker is on.
InLines == Split(pp_in.query_str, <<"\n">>)
LineOf(marker) == CHOOSE k \in 1..Len(InLines) : Contains(InLines[k], marker)

\* s without the markers, and the part of s in front of / behind a marker.
Unmarked(s) ==
    Join(Split(Join(Split(s, PRETTY_PRINT_BEGIN_TARGET), <<>>), PRETTY_PRINT_END_TARGET), <<>>)
BeforeMarker(s, marker) == Split(s, marker)[1]
AfterMarker(s, marker) == Split(s, marker)[2]

\* Line k of the rendered text holds part of the bracketed region.
InRegion(k) == LineOf(PRETTY_PRINT_BEGIN_TARGET) <= k /\ k <= LineOf(PRETTY_PRINT_END_TARGET)

\* The part of line s (line k of the text) that lies between the markers,
\* and the part of s in front of it.
BracketedPart(s, k) ==
    LET opened == IF k = LineOf(PRETTY_PRINT_BEGIN_TARGET)
                  THEN AfterMarker(s, PRETTY_PRINT_BEGIN_TARGET) ELSE s
    IN  IF k = LineOf(PRETTY_PRINT_END_TARGET)
        THEN BeforeMarker(opened, PRETTY_PRINT_END_TARGET) ELSE opened
PartInFront(s, k) ==
    IF k = LineOf(PRETTY_PRINT_BEGIN_TARGET) THEN BeforeMarker(s, PRETTY_PRINT_BEGIN_TARGET)
    ELSE <<>>

\* Line k as displayed when every character between the markers is
\* underlined: the line without the markers and, in the region, carets
\* under the bracketed part.
ExactLine(k) ==
    LET s == InLines[k] IN
    IF InRegion(k)
    THEN <<Unmarked(s),
           Fill(" ", Len(PartInFront(s, k))) \o Fill("^", Len(BracketedPart(s, k)))>>
    ELSE <<Unmarked(s)>>

\* Line k as displayed when blanks at the end of a line are dropped and the
\* blanks a continuation line of the region starts with are not underlined.
VisibleLine(k) ==
    LET s == RStrip(InLines[k])
        part == BracketedPart(s, k)
        indent == IF k = LineOf(PRETTY_PRINT_BEGIN_TARGET) THEN 0
                  ELSE Len(part) - Len(LStrip(part))
    IN  IF InRegion(k)
        THEN <<Unmarked(s),
               Fill(" ", Len(PartInFront(s, k)) + indent) \o Fill("^", Len(part) - indent)>>
        ELSE <<Unmarked(s)>>

\* The display made of ExactLine / VisibleLine for the lines from k on.
RECURSIVE ExactFrom(_)
ExactFrom(k) == IF k > Len(InLines) THEN <<>> ELSE ExactLine(k) \o ExactFrom(k + 1)

RECURSIVE VisibleFrom(_)
VisibleFrom(k) == IF k > Len(InLines) THEN <<>> ELSE VisibleLine(k) \o VisibleFrom(k + 1)

----------------------------------------------------------------------------
(* QueryError.location over an expression tree *)

MaxNodes == 3       \* nodes of the expression tree of a query

\* A query is a tree of nodes 1..n, the root first: parent[i] is the node
\* that prints node i, steps[i] the backtrace steps it passes for it, and
\* size the length of the text of the last node (a leaf).
Parents(n) == {f \in [1..n -> 0..(n - 1)] : f[1] = 0 /\ \A i \in 2..n : f[i] \in 1..(i - 1)}
StepLists == {<<>>, <<0>>, <<1>>, <<1, 0>>, <<1, 0, 0>>}
NodeSizes == {1, 9, 61}
Queries(kinds, n) ==
    [kind : kinds, parent : Parents(n),
     steps : {f \in [1..n -> StepLists] : f[1] = <<>>}, size : NodeSizes]

\* The nodes printed by node i, in the order they are printed.
Kids(q, i) == SelectSeq([k \in 1..Len(q.parent) |-> k], LAMBDA j : q.parent[j] = i)

\* The text of a leaf and the name of a node with arguments.
NodeText(q, i) ==
    IF i = Len(q.parent) THEN Fill("x", q.size)
    ELSE IF Kids(q, i) = <<>> THEN <<"a">>
    ELSE <<"f">>

\* BacktracePrettyPrinter.__init__
Printer(current_backtrace, target_backtrace) ==
    [current_backtrace |-> current_backtrace, target_backtrace |-> target_backtrace]

\* BacktracePrettyPrinter.simple_string
SimpleString(printer, string, backtrace_steps, asserts) ==
    ConsiderBacktrace(printer.current_backtrace, printer.target_backtrace, string,
                      backtrace_steps, asserts)

RECURSIVE PrettyPrint(_, _, _, _)
RECURSIVE PrintArgs(_, _, _, _)
RECURSIVE ExprUnwrapped(_, _, _, _, _)

\* BacktracePrettyPrinter.expr_unwrapped
ExprUnwrapped(q, printer, expr, backtrace_steps, asserts) ==
    LET inner == PrettyPrint(q, expr,
                             Printer(printer.current_backtrace \o backtrace_steps,
                                     printer.target_backtrace),
                             asserts)
    IN  IF inner.exc # "none" THEN Raised(inner.exc, 0)
        ELSE ConsiderBacktrace(printer.current_backtrace, printer.target_backtrace,
                               inner.string, backtrace_steps, asserts)

\* The arguments of a node, each printed through the printer and joined by
\* ", ": a leaf as a simple string, a node with arguments as an expression.
PrintArgs(q, kids, printer, asserts) ==
    LET j == kids[1]
        first == IF Kids(q, j) = <<>>
                 THEN SimpleString(printer, NodeText(q, j), q.steps[j], asserts)
                 ELSE ExprUnwrapped(q, printer, j, q.steps[j], asserts)
    IN  IF first.exc # "none" \/ Len(kids) = 1 THEN first
        ELSE LET rest == PrintArgs(q, Tail(kids), printer, asserts) IN
             IF rest.exc # "none" THEN rest
             ELSE Returned(first.string \o <<",", " ">> \o rest.string, 0)

\* pretty_print of node i: its text and whether it is wrapped.  A leaf is
\* its own text, not wrapped; a node with arguments is f(arguments).
PrettyPrint(q, i, printer, asserts) ==
    IF Kids(q, i) = <<>>
    THEN [exc |-> "none", string |-> NodeText(q, i), wrapped |-> FALSE]
    ELSE LET args == PrintArgs(q, Kids(q, i), printer, asserts) IN
         IF args.exc # "none" THEN [exc |-> args.exc, string |-> <<>>, wrapped |-> TRUE]
         ELSE [exc |-> "none",
               string |-> NodeText(q, i) \o <<"(">> \o args.string \o <<")">>,
               wrapped |-> TRUE]

\* "expr(%s)" % string
ExprOf(string) == <<"e", "x", "p", "r", "(">> \o string \o <<")">>

\* BacktracePrettyPrinter.expr_wrapped
ExprWrapped(q, printer, expr, backtrace_steps, asserts) ==
    LET inner == PrettyPrint(q, expr,
                             Printer(printer.current_backtrace \o backtrace_steps,
                                     printer.target_backtrace),
                             asserts)
        string == IF inner.wrapped THEN inner.string ELSE ExprOf(inner.string)
    IN  IF inner.exc # "none" THEN Raised(inner.exc, 0)
        ELSE ConsiderBacktrace(printer.current_backtrace, printer.target_backtrace,
                               string, backtrace_steps, asserts)

\* BacktracePrettyPrinter.write_query
WriteQuery(q, printer, wq, backtrace_steps, asserts) ==
    LET inner == PrettyPrint(q, wq,
                             Printer(printer.current_backtrace \o backtrace_steps,
                                     printer.target_backtrace),
                             asserts)
    IN  IF inner.exc # "none" THEN Raised(inner.exc, 0)
        ELSE ConsiderBacktrace(printer.current_backtrace, printer.target_backtrace,
                               inner.string, backtrace_steps, asserts)

\* location() up to the marker count: the text the query is printed as, or
\* the exception raised on the way.
Rendered(q, ast_path, asserts) ==
    LET printer == Printer(<<>>, ast_path) IN
    IF q.kind = "ReadQuery" THEN ExprWrapped(q, printer, 1, <<>>, asserts)
    ELSE IF q.kind = "WriteQuery" THEN WriteQuery(q, printer, 1, <<>>, asserts)
    ELSE Raised("NotImplementedError", 0)

\* QueryError.location(): the printed query and what the call returns.
Location(q, ast_path, asserts) ==
    LET rendered == Rendered(q, ast_path, asserts) IN
    [query_str |-> rendered,
     result |-> IF rendered.exc # "none" THEN [exc |-> rendered.exc, string |-> <<>>]
                ELSE Carets(rendered.string)]

\* The errors located: read and write queries of up to MaxNodes nodes and a
\* meta query, with a backtrace of up to MaxPath steps.
LocationInputs(kinds, n) ==
    [op : {"location"}, query : Queries(kinds, n),
     ast_path : SeqsUpTo(StepNames, MaxPath), asserts : BOOLEAN]

LocationInit ==
    /\ SessionInit
    /\ RecvUnused
    /\ \/ \E n \in 1..MaxNodes : pp_in \in LocationInputs({"ReadQuery", "WriteQuery"}, n)
       \/ pp_in \in LocationInputs({"MetaQuery"}, 1)
    /\ pp_out = [op |-> "none"]

\* One call of location().
LocationCall ==
    /\ pp_in.op = "location"
    /\ pp_out.op = "none"
    /\ pp_out' = [op |-> "location"] @@ Location(pp_in.query, pp_in.ast_path, pp_in.asserts)
    /\ UNCHANGED pp_in
    /\ UNCHANGED <<sessionVars, recvVars>>

LocationNext == LocationCall

LocationSpec == LocationInit /\ [][LocationNext]_vars

\* The path of node i from the root, and the nodes the backtrace addresses.
RECURSIVE PathTo(_, _)
PathTo(q, i) == IF i = 1 THEN <<>> ELSE PathTo(q, q.parent[i]) \o q.steps[i]
Matches == {i \in 1..Len(pp_in.query.parent) : PathTo(pp_in.query, i) = pp_in.ast_path}
Printed == pp_out.op = "location" /\ pp_in.query.kind \in {"ReadQuery", "WriteQuery"}

\* The text node i is printed as at its place in the tree.
TextOf(i) ==
    LET q == pp_in.query
        inner == PrettyPrint(q, i, Printer(PathTo(q, i), pp_in.ast_path), pp_in.asserts)
    IN  IF i = 1 /\ q.kind = "ReadQuery" /\ ~inner.wrapped THEN ExprOf(inner.string)
        ELSE inner.string

\* C15: when the backtrace addresses exactly one node of a read or write
\* query, the printed text holds exactly one begin marker and one end
\* marker, the begin marker first, and between them the text of that node.
C15_OneBracketedTarget ==
    Printed /\ Cardinality(Matches) = 1 =>
        LET query_str == pp_out.query_str.string
            outer == Split(query_str, PRETTY_PRINT_BEGIN_TARGET)
        IN  /\ pp_out.query_str.exc = "none"
            /\ Count(query_str, PRETTY_PRINT_BEGIN_TARGET) = 1
            /\ Count(query_str, PRETTY_PRINT_END_TARGET) = 1
            /\ Len(outer) = 2
            /\ MarkerFree(outer[1])
            /\ Split(outer[2], PRETTY_PRINT_END_TARGET)[1] = TextOf(CHOOSE i \in Matches : TRUE)

\* C15 witness: the target is printed next to a side branch that was cut
\* down to "...".
C15_Witness ==
    /\ Printed
    /\ Cardinality(Matches) = 1
    /\ pp_out.query_str.string =
          <<"f", "(">> \o PRETTY_PRINT_BEGIN_TARGET \o <<"a">> \o PRETTY_PRINT_END_TARGET
              \o <<",", " ">> \o Dots \o <<")">>

\* C16: location() returns a text only if exactly one node has the path of
\* the backtrace; with no such node, or several (side by side or one inside
\* the other), a read or write query ends in ValueError or AssertionError.
C16_LocationNeedsOneMatch ==
    pp_out.op = "location" =>
        /\ pp_out.result.exc = "none" => Cardinality(Matches) = 1
        /\ Printed /\ Cardinality(Matches) # 1 =>
              /\ pp_out.result.exc \in {"ValueError", "AssertionError"}
              /\ pp_out.result.string = <<>>

\* C16 witness: two nodes side by side have the path of the backtrace and
\* the marker count fails.
C16_Witness ==
    /\ Printed
    /\ Cardinality(Matches) = 2
    /\ pp_in.query.parent = <<0, 1, 1>>
    /\ pp_out.query_str.exc = "none"
    /\ pp_out.result.exc = "ValueError"

============================================================================
